---------------------------- MODULE Spec2Model ----------------------------
(***************************************************************************)
(* Model of custom_components/felicity_battery/api.py: the TCP fetch of    *)
(* FelicityClient (async_get_data, _async_read_raw) and the regex-based    *)
(* extractor _parse_payload.                                               *)
(*                                                                         *)
(* Text and bytes are sequences of one-character strings.  A byte above    *)
(* 0x7F is written as a string of the form "0x80".                         *)
(***************************************************************************)
EXTENDS Integers, Sequences, FiniteSets, TLC

(***************************************************************************)
(* Characters                                                              *)
(***************************************************************************)
Q == "\""
Apos == "'"
Brace == "}"
Digits == {"0", "1", "2", "3", "4", "5", "6", "7", "8", "9"}
IntChars == Digits \cup {"-"}
\* what \s matches and what str.strip() / int() strip, within ASCII
Ws == {" ", "\t", "\n", "\r", "\f"}
NonAscii == {"0x80", "0xFF"}

None == <<>>
Some(v) == <<v>>

(***************************************************************************)
(* re.search: a pattern is a sequence of elements                          *)
(*   lit    a literal text (cap: a capturing group around it)              *)
(*   run    a greedy run of a character class, at least min long           *)
(*   opt    (?: sub )?  holding n capturing groups                         *)
(*   optalt ( a1 | a2 | ... )?  one capturing group, alternatives in order *)
(* Every run of the patterns of api.py is followed by a character outside  *)
(* its class (or ends the pattern), so a greedy run never gives back.      *)
(***************************************************************************)
Lit(chars) == [t |-> "lit", lit |-> chars, cap |-> FALSE]
LitCap(chars) == [t |-> "lit", lit |-> chars, cap |-> TRUE]
Run(neg, set, min, cap) == [t |-> "run", neg |-> neg, set |-> set, min |-> min, cap |-> cap]
Opt(sub, n) == [t |-> "opt", sub |-> sub, n |-> n]
OptAlt(alts) == [t |-> "optalt", alts |-> alts]

S == Run(FALSE, Ws, 0, FALSE)
IntGroup == Run(FALSE, IntChars, 1, TRUE)
Key(name) == Lit(<<Q>> \o name \o <<Q>>)

NoMatch == [ok |-> FALSE, end |-> 0, caps |-> <<>>]

InClass(c, e) == IF e.neg THEN c \notin e.set ELSE c \in e.set

\* where the greedy run of class e that starts at i ends (the index after it)
RunEnd(s, i, e) ==
    CHOOSE j \in i..(Len(s) + 1) :
        /\ \A k \in i..(j - 1) : InClass(s[k], e)
        /\ j = Len(s) + 1 \/ ~InClass(s[j], e)

RECURSIVE MatchAt(_, _, _, _)
RECURSIVE TryAlts(_, _, _, _, _)
MatchAt(pat, s, i, caps) ==
    IF Len(pat) = 0 THEN [ok |-> TRUE, end |-> i, caps |-> caps]
    ELSE LET e == Head(pat)
             rest == Tail(pat)
         IN  CASE e.t = "lit" ->
                    LET j == i + Len(e.lit)
                    IN  IF j - 1 <= Len(s) /\ SubSeq(s, i, j - 1) = e.lit
                        THEN MatchAt(rest, s, j,
                                     IF e.cap THEN Append(caps, Some(e.lit)) ELSE caps)
                        ELSE NoMatch
               [] e.t = "run" ->
                    LET j == RunEnd(s, i, e)
                    IN  IF j - i >= e.min
                        THEN MatchAt(rest, s, j,
                                     IF e.cap THEN Append(caps, Some(SubSeq(s, i, j - 1)))
                                     ELSE caps)
                        ELSE NoMatch
               [] e.t = "opt" ->
                    LET r == MatchAt(e.sub \o rest, s, i, caps)
                    IN  IF r.ok THEN r
                        ELSE MatchAt(rest, s, i, caps \o [k \in 1..e.n |-> None])
               [] e.t = "optalt" -> TryAlts(e.alts, rest, s, i, caps)

TryAlts(alts, rest, s, i, caps) ==
    IF Len(alts) = 0 THEN MatchAt(rest, s, i, Append(caps, None))
    ELSE LET r == MatchAt(<<Head(alts)>> \o rest, s, i, caps)
         IN  IF r.ok THEN r ELSE TryAlts(Tail(alts), rest, s, i, caps)

\* re.search: the match at the leftmost position that has one
Search(pat, s) ==
    LET first == Head(pat)
        \* a pattern that begins with a literal matches only where that literal begins
        from == IF first.t = "lit" THEN {i \in 1..Len(s) : s[i] = first.lit[1]}
                ELSE 1..(Len(s) + 1)
        hits == {i \in from : MatchAt(pat, s, i, <<>>).ok}
    IN  IF hits = {} THEN NoMatch
        ELSE MatchAt(pat, s, CHOOSE i \in hits : \A k \in hits : i <= k, <<>>)

(***************************************************************************)
(* int(): over the characters the patterns let through (digits, minus,     *)
(* whitespace) a text converts iff, stripped, it is -?[0-9]+               *)
(***************************************************************************)
RECURSIVE LStrip(_)
LStrip(s) == IF Len(s) > 0 /\ Head(s) \in Ws THEN LStrip(Tail(s)) ELSE s

RECURSIVE RStrip(_)
RStrip(s) ==
    IF Len(s) > 0 /\ s[Len(s)] \in Ws THEN RStrip(SubSeq(s, 1, Len(s) - 1)) ELSE s

Strip(s) == RStrip(LStrip(s))

AllDigits(s) == Len(s) > 0 /\ \A k \in 1..Len(s) : s[k] \in Digits

IntOk(raw) ==
    LET s == Strip(raw)
    IN  IF Len(s) > 0 /\ Head(s) = "-" THEN AllDigits(Tail(s)) ELSE AllDigits(s)

DigitVal(c) ==
    CASE c = "0" -> 0 [] c = "1" -> 1 [] c = "2" -> 2 [] c = "3" -> 3 [] c = "4" -> 4
      [] c = "5" -> 5 [] c = "6" -> 6 [] c = "7" -> 7 [] c = "8" -> 8 [] c = "9" -> 9

RECURSIVE NatOf(_)
NatOf(s) == IF Len(s) = 0 THEN 0 ELSE 10 * NatOf(SubSeq(s, 1, Len(s) - 1)) + DigitVal(s[Len(s)])

IntOf(raw) ==
    LET s == Strip(raw)
    IN  IF Head(s) = "-" THEN 0 - NatOf(Tail(s)) ELSE NatOf(s)

(***************************************************************************)
(* _parse_payload                                                          *)
(***************************************************************************)
kCommVer == <<"C", "o", "m", "m", "V", "e", "r">>
kWifiSN == <<"w", "i", "f", "i", "S", "N">>
kDevSN == <<"D", "e", "v", "S", "N">>
kEstate == <<"E", "s", "t", "a", "t", "e">>
kBfault == <<"B", "f", "a", "u", "l", "t">>
kBwarn == <<"B", "w", "a", "r", "n">>
kBatt == <<"B", "a", "t", "t">>
kBatsoc == <<"B", "a", "t", "s", "o", "c">>
kBMaxMin == <<"B", "M", "a", "x", "M", "i", "n">>
kLVolCur == <<"L", "V", "o", "l", "C", "u", "r">>
kBTemp == <<"B", "T", "e", "m", "p">>
kTemplist == <<"T", "e", "m", "p", "l", "i", "s", "t">>
kBatcelList == <<"B", "a", "t", "c", "e", "l", "L", "i", "s", "t">>
cNull == <<"n", "u", "l", "l">>
cNone == <<"N", "o", "n", "e">>

Colon == Lit(<<":">>)
LB == Lit(<<"[">>)
RB == Lit(<<"]">>)
Comma == Lit(<<",">>)

\* norm = text.replace("'", '"')
ReplaceQuotes(text) == [k \in 1..Len(text) |-> IF text[k] = Apos THEN Q ELSE text[k]]

\* str.rfind("}"): the last index of a closing brace, 0 when there is none
RFindBrace(s) ==
    IF \E k \in 1..Len(s) : s[k] = Brace
    THEN CHOOSE k \in 1..Len(s) : s[k] = Brace /\ \A m \in (k + 1)..Len(s) : s[m] # Brace
    ELSE 0

\* mutant: the text is truncated but its single quotes are left as they are
Normalize_NoRewrite(text) ==
    LET last_brace == RFindBrace(text)
    IN  IF last_brace # 0 THEN SubSeq(text, 1, last_brace) ELSE text

Normalize(text) ==
    LET norm == ReplaceQuotes(text)
        last_brace == RFindBrace(norm)
    IN  IF last_brace # 0 THEN SubSeq(norm, 1, last_brace) ELSE norm

\* A recognizer yields [exc, val]: exc when an int() of it raises ValueError,
\* val the value (None when the field does not match).
Absent == [exc |-> FALSE, val |-> None]
Raised == [exc |-> TRUE, val |-> None]
Found(v) == [exc |-> FALSE, val |-> Some(v)]

\* the captured groups converted by int(): raises when one does not convert
Ints(groups) ==
    IF \E k \in 1..Len(groups) : ~IntOk(groups[k][1]) THEN Raised
    ELSE Found([k \in 1..Len(groups) |-> IntOf(groups[k][1])])

FindStrPat(key) ==
    <<Key(key), S, Colon, S, Lit(<<Q>>), Run(TRUE, {Q}, 0, TRUE), Lit(<<Q>>)>>

FindStr(key, norm) ==
    LET m == Search(FindStrPat(key), norm)
    IN  IF m.ok THEN m.caps[1] ELSE None

FindIntPat(key) == <<Key(key), S, Colon, S, IntGroup>>

FindInt(key, norm) ==
    LET m == Search(FindIntPat(key), norm)
    IN  IF ~m.ok THEN Absent
        ELSE IF IntOk(m.caps[1][1]) THEN Found(IntOf(m.caps[1][1])) ELSE Raised

BattPat ==
    <<Key(kBatt), S, Colon, S, LB, S, LB, S, IntGroup, S, RB, S, Comma, S,
      LB, S, IntGroup, S, RB, S, Comma, S,
      LB, S, OptAlt(<<LitCap(cNull), LitCap(cNone), IntGroup>>), S, RB, S, RB>>

FindBatt(norm) ==
    LET m == Search(BattPat, norm)
        third_raw == m.caps[3]
        skip == third_raw \in {None, Some(cNull), Some(cNone), Some(<<>>)}
        vi == Ints(SubSeq(m.caps, 1, 2))
    IN  IF ~m.ok THEN Absent
        ELSE IF vi.exc THEN Raised
        ELSE IF skip THEN Found(<<<<vi.val[1][1]>>, <<vi.val[1][2]>>, <<None>>>>)
        ELSE IF ~IntOk(third_raw[1]) THEN Raised
        ELSE Found(<<<<vi.val[1][1]>>, <<vi.val[1][2]>>, <<Some(IntOf(third_raw[1]))>>>>)

BatsocPat ==
    <<Key(kBatsoc), S, Colon, S, LB, S, LB, S, IntGroup, S, Comma, S, IntGroup, S,
      Comma, S, IntGroup, S, RB, S, RB>>

FindBatsoc(norm) ==
    LET m == Search(BatsocPat, norm)
        v == Ints(m.caps)
    IN  IF ~m.ok THEN Absent
        ELSE IF v.exc THEN Raised
        ELSE Found(<<v.val[1]>>)

\* BMaxMin and LVolCur share one shape: [[a,b],[c,d]]
TwoPairsPat(key) ==
    <<Key(key), S, Colon, S, LB, S, LB, S, IntGroup, S, Comma, S, IntGroup, S, RB, S,
      Comma, S, LB, S, IntGroup, S, Comma, S, IntGroup, S, RB, S, RB>>

FindTwoPairs(key, norm) ==
    LET m == Search(TwoPairsPat(key), norm)
        v == Ints(m.caps)
    IN  IF ~m.ok THEN Absent
        ELSE IF v.exc THEN Raised
        ELSE Found(<<<<v.val[1][1], v.val[1][2]>>, <<v.val[1][3], v.val[1][4]>>>>)

FindBMaxMin(norm) == FindTwoPairs(kBMaxMin, norm)

FindLVolCur(norm) == FindTwoPairs(kLVolCur, norm)

BTempPat ==
    <<Key(kBTemp), S, Colon, S, LB, S, LB, S, IntGroup, S, Comma, S, IntGroup, S, RB,
      Opt(<<S, Comma, S, LB, S, IntGroup, S, Comma, S, IntGroup, S, RB>>, 2), S, RB>>

TemplistPat ==
    <<Key(kTemplist), S, Colon, S, LB, S, LB, S, IntGroup, S, Comma, S, IntGroup, S, RB>>

\* mutant: the temperature list is tried first, the primary field second
FindBTemp_TemplistFirst(norm) ==
    LET m == Search(BTempPat, norm)
        two == m.caps[3] # None /\ m.caps[4] # None
        v == Ints(IF two THEN m.caps ELSE SubSeq(m.caps, 1, 2))
        f == Search(TemplistPat, norm)
        w == Ints(f.caps)
    IN  IF f.ok
        THEN IF w.exc THEN Raised ELSE Found(<<w.val[1]>>)
        ELSE IF m.ok
        THEN IF v.exc THEN Raised
             ELSE IF two
                  THEN Found(<<<<v.val[1][1], v.val[1][2]>>, <<v.val[1][3], v.val[1][4]>>>>)
                  ELSE Found(<<<<v.val[1][1], v.val[1][2]>>>>)
        ELSE Absent

FindBTemp(norm) ==
    LET m == Search(BTempPat, norm)
        two == m.caps[3] # None /\ m.caps[4] # None
        v == Ints(IF two THEN m.caps ELSE SubSeq(m.caps, 1, 2))
        f == Search(TemplistPat, norm)
        w == Ints(f.caps)
    IN  IF m.ok
        THEN IF v.exc THEN Raised
             ELSE IF two
                  THEN Found(<<<<v.val[1][1], v.val[1][2]>>, <<v.val[1][3], v.val[1][4]>>>>)
                  ELSE Found(<<<<v.val[1][1], v.val[1][2]>>>>)
        ELSE IF f.ok
             THEN IF w.exc THEN Raised ELSE Found(<<w.val[1]>>)
             ELSE Absent

BatcelListPat ==
    <<Key(kBatcelList), S, Colon, S, LB, S, LB,
      Run(FALSE, Digits \cup {",", "-"} \cup Ws, 1, TRUE), RB>>

\* str.split(","): the pieces between the commas, empty pieces kept
RECURSIVE SplitComma(_, _)
SplitComma(s, piece) ==
    IF Len(s) = 0 THEN <<piece>>
    ELSE IF Head(s) = "," THEN <<piece>> \o SplitComma(Tail(s), <<>>)
    ELSE SplitComma(Tail(s), Append(piece, Head(s)))

\* the try/except around the conversion: a failing int() leaves the field absent
FindBatcelList(norm) ==
    LET m == Search(BatcelListPat, norm)
        pieces == SplitComma(m.caps[1][1], <<>>)
    IN  IF ~m.ok THEN Absent
        ELSE IF \E k \in 1..Len(pieces) : ~IntOk(pieces[k]) THEN Absent
        ELSE Found(<<[k \in 1..Len(pieces) |-> IntOf(pieces[k])]>>)

\* a key of the dict that is set only when its recognizer found a value
Entry(key, r) == IF r.val = None THEN <<>> ELSE key :> r.val[1]

ValueError == [kind |-> "ValueError"]
FelicityApiError(cause) == [kind |-> "FelicityApiError", cause |-> cause]
Record(rec) == [kind |-> "record", rec |-> rec]

ParsePayload(text) ==
    LET norm == Normalize(text)
        CommVer == FindInt(kCommVer, norm)
        Estate == FindInt(kEstate, norm)
        Bfault == FindInt(kBfault, norm)
        Bwarn == FindInt(kBwarn, norm)
        Batt == FindBatt(norm)
        Batsoc == FindBatsoc(norm)
        BMaxMin == FindBMaxMin(norm)
        LVolCur == FindLVolCur(norm)
        BTemp == FindBTemp(norm)
        BatcelList == FindBatcelList(norm)
        result ==
            [CommVer |-> CommVer.val,
             wifiSN |-> FindStr(kWifiSN, norm),
             DevSN |-> FindStr(kDevSN, norm),
             Estate |-> Estate.val,
             Bfault |-> Bfault.val,
             \* _find_int("Bwarn") or 0
             Bwarn |-> IF Bwarn.val = None THEN 0 ELSE Bwarn.val[1]]
            @@ Entry("Batt", Batt) @@ Entry("Batsoc", Batsoc)
            @@ Entry("BMaxMin", BMaxMin) @@ Entry("LVolCur", LVolCur)
            @@ Entry("BTemp", BTemp) @@ Entry("BatcelList", BatcelList)
    IN  IF \/ CommVer.exc \/ Estate.exc \/ Bfault.exc \/ Bwarn.exc \/ Batt.exc
           \/ Batsoc.exc \/ BMaxMin.exc \/ LVolCur.exc \/ BTemp.exc
        THEN ValueError
        ELSE IF "Batsoc" \notin DOMAIN result /\ "Batt" \notin DOMAIN result
        THEN FelicityApiError("parse")
        ELSE Record(result)

(***************************************************************************)
(* The fetch: async_get_data -> _async_read_raw -> _parse_payload          *)
(*                                                                         *)
(* The code between two awaits runs without interruption; it is split into *)
(* steps only where a claim speaks of the order of the steps.  A task      *)
(* suspended in an await resumes with the awaited result, with the error   *)
(* the await raises, or with CancelledError when its caller cancels it.    *)
(***************************************************************************)
VARIABLES
    pc,        \* where the call is: idle, connect, write, drain, loop, read,
               \* close, wait_closed, after, parse, done
    conn,      \* the TCP connection: none, failed, open, closed
    attempts,  \* read attempts started by the loop
    data,      \* the accumulated bytes
    loopExit,  \* how the read loop ended: none (not ended), brace, timeout, eof,
               \* exhausted, error, cancel
    pending,   \* the exception in flight through the finally block
    text,      \* the text _async_read_raw returned, the argument of _parse_payload
    outcome,   \* what reached the caller of async_get_data
    nConnect,  \* calls of asyncio.open_connection
    nWrite,    \* calls of writer.write
    nParse,    \* calls of _parse_payload
    delivered, \* the bytes the connection of this call has delivered so far
    other      \* the locals of a second call, suspended at an await

vars == <<pc, conn, attempts, data, loopExit, pending, text, outcome, nConnect, nWrite, nParse,
          delivered, other>>

\* for _ in range(10)
MaxAttempts == 10

Pending == [kind |-> "pending"]
CancelledError == [kind |-> "CancelledError"]

HasBrace(bytes) == \E k \in 1..Len(bytes) : bytes[k] = Brace

\* bytes.decode("ascii", errors="ignore"): the bytes above 0x7F are dropped
DecodeAscii(bytes) == SelectSeq(bytes, LAMBDA b : b \notin NonAscii)

\* what reader.read(1024) may deliver in one attempt
ChunkOpen == <<"{", Q>> \o kBatsoc \o <<Q, ":", "[", "[", "9", ",", "1", ",", "2", "]", "]">>
ChunkBlank == <<" ", "0x80">>
ChunkClose == <<"}">>
ChunkWhole ==
    <<"{", Apos>> \o kBatt \o <<Apos, ":", "[", "[", "5", "]", ",", "[", "-", "1", "]", ",",
      "[", "n", "u", "l", "l", "]", "]", ",", Apos>> \o kCommVer \o <<Apos, ":", "-", "}", "\n">>
Chunks == {ChunkOpen, ChunkBlank, ChunkClose, ChunkWhole}

\* the locals of a call that has not started
IdleFrame ==
    [pc |-> "idle", conn |-> "none", attempts |-> 0, data |-> <<>>, loopExit |-> "none",
     pending |-> "none", text |-> <<>>, outcome |-> Pending, nConnect |-> 0, nWrite |-> 0,
     nParse |-> 0, delivered |-> <<>>]

Init ==
    /\ pc = "idle"
    /\ conn = "none"
    /\ attempts = 0
    /\ data = <<>>
    /\ loopExit = "none"
    /\ pending = "none"
    /\ text = <<>>
    /\ outcome = Pending
    /\ nConnect = 0
    /\ nWrite = 0
    /\ nParse = 0
    /\ delivered = <<>>
    /\ other = IdleFrame

\* async_get_data is called: _async_read_raw awaits asyncio.open_connection
AsyncGetData ==
    /\ pc = "idle"
    /\ pc' = "connect"
    /\ nConnect' = nConnect + 1
    /\ UNCHANGED <<conn, attempts, data, loopExit, pending, text, outcome, nWrite, nParse, delivered, other>>

ConnectOk ==
    /\ pc = "connect"
    /\ conn' = "open"
    /\ pc' = "write"
    /\ UNCHANGED <<attempts, data, loopExit, pending, text, outcome, nConnect, nWrite, nParse, delivered, other>>

\* mutant: a failed connect is tried once more
ConnectFail_Retry ==
    /\ pc = "connect"
    /\ conn' = "failed"
    /\ IF nConnect < 2
       THEN pc' = "connect" /\ nConnect' = nConnect + 1 /\ outcome' = outcome
       ELSE pc' = "done" /\ nConnect' = nConnect /\ outcome' = FelicityApiError("connect")
    /\ UNCHANGED <<attempts, data, loopExit, pending, text, nWrite, nParse, delivered, other>>

\* except Exception as err: raise FelicityApiError("Error connecting ...")
ConnectFail ==
    /\ pc = "connect"
    /\ conn' = "failed"
    /\ outcome' = FelicityApiError("connect")
    /\ pc' = "done"
    /\ UNCHANGED <<attempts, data, loopExit, pending, text, nConnect, nWrite, nParse, delivered, other>>

\* CancelledError is no Exception: it passes the except clause
ConnectCancel ==
    /\ pc = "connect"
    /\ outcome' = CancelledError
    /\ pc' = "done"
    /\ UNCHANGED <<conn, attempts, data, loopExit, pending, text, nConnect, nWrite, nParse, delivered, other>>

\* writer.write(b"wifilocalMonitor:get dev real infor"), then await writer.drain()
Write ==
    /\ pc = "write"
    /\ nWrite' = nWrite + 1
    /\ pc' = "drain"
    /\ UNCHANGED <<conn, attempts, data, loopExit, pending, text, outcome, nConnect, nParse, delivered, other>>

\* data = b""
DrainOk ==
    /\ pc = "drain"
    /\ data' = <<>>
    /\ pc' = "loop"
    /\ UNCHANGED <<conn, attempts, loopExit, pending, text, outcome, nConnect, nWrite, nParse, delivered, other>>

\* except Exception as err: raise FelicityApiError("Error talking ..."), through finally
DrainFail ==
    /\ pc = "drain"
    /\ pending' = "talk"
    /\ pc' = "close"
    /\ UNCHANGED <<conn, attempts, data, loopExit, text, outcome, nConnect, nWrite, nParse, delivered, other>>

DrainCancel ==
    /\ pc = "drain"
    /\ pending' = "cancelled"
    /\ pc' = "close"
    /\ UNCHANGED <<conn, attempts, data, loopExit, text, outcome, nConnect, nWrite, nParse, delivered, other>>

\* the next iteration of the for loop: await asyncio.wait_for(reader.read(1024), 0.5)
StartRead ==
    /\ pc = "loop"
    /\ attempts < MaxAttempts
    /\ attempts' = attempts + 1
    /\ pc' = "read"
    /\ UNCHANGED <<conn, data, loopExit, pending, text, outcome, nConnect, nWrite, nParse, delivered, other>>

\* range(10) is used up
LoopExhausted ==
    /\ pc = "loop"
    /\ attempts >= MaxAttempts
    /\ loopExit' = "exhausted"
    /\ pc' = "close"
    /\ UNCHANGED <<conn, attempts, data, pending, text, outcome, nConnect, nWrite, nParse, delivered, other>>

\* mutant: the closing brace is looked for only at the end of the chunk
ReadChunk_BraceLast(chunk) ==
    /\ pc = "read"
    /\ data' = data \o chunk
    /\ delivered' = delivered \o chunk
    /\ IF chunk[Len(chunk)] = Brace
       THEN loopExit' = "brace" /\ pc' = "close"
       ELSE loopExit' = loopExit /\ pc' = "loop"
    /\ UNCHANGED <<conn, attempts, pending, text, outcome, nConnect, nWrite, nParse, other>>

\* a non-empty chunk: data += chunk; if b"}" in chunk: break
ReadChunk(chunk) ==
    /\ pc = "read"
    /\ data' = data \o chunk
    /\ delivered' = delivered \o chunk
    /\ IF HasBrace(chunk)
       THEN loopExit' = "brace" /\ pc' = "close"
       ELSE loopExit' = loopExit /\ pc' = "loop"
    /\ UNCHANGED <<conn, attempts, pending, text, outcome, nConnect, nWrite, nParse, other>>

\* except asyncio.TimeoutError: break
ReadTimeout ==
    /\ pc = "read"
    /\ loopExit' = "timeout"
    /\ pc' = "close"
    /\ UNCHANGED <<conn, attempts, data, pending, text, outcome, nConnect, nWrite, nParse, delivered, other>>

\* if not chunk: break
ReadEof ==
    /\ pc = "read"
    /\ loopExit' = "eof"
    /\ pc' = "close"
    /\ UNCHANGED <<conn, attempts, data, pending, text, outcome, nConnect, nWrite, nParse, delivered, other>>

\* mutant: a failed read ends the loop like a timeout, the bytes so far are kept
ReadFail_Break ==
    /\ pc = "read"
    /\ loopExit' = "error"
    /\ pc' = "close"
    /\ UNCHANGED <<conn, attempts, data, pending, text, outcome, nConnect, nWrite, nParse, delivered, other>>

\* reader.read raises (the connection was reset): the outer except Exception
ReadFail ==
    /\ pc = "read"
    /\ loopExit' = "error"
    /\ pending' = "talk"
    /\ pc' = "close"
    /\ UNCHANGED <<conn, attempts, data, text, outcome, nConnect, nWrite, nParse, delivered, other>>

\* mutant: the cleanup sits in the except Exception clause, which CancelledError passes
ReadCancel_NoCleanup ==
    /\ pc = "read"
    /\ loopExit' = "cancel"
    /\ pending' = "cancelled"
    /\ pc' = "after"
    /\ UNCHANGED <<conn, attempts, data, text, outcome, nConnect, nWrite, nParse, delivered, other>>

ReadCancel ==
    /\ pc = "read"
    /\ loopExit' = "cancel"
    /\ pending' = "cancelled"
    /\ pc' = "close"
    /\ UNCHANGED <<conn, attempts, data, text, outcome, nConnect, nWrite, nParse, delivered, other>>

\* finally: writer.close(), then await writer.wait_closed()
Close ==
    /\ pc = "close"
    /\ conn' = "closed"
    /\ pc' = "wait_closed"
    /\ UNCHANGED <<attempts, data, loopExit, pending, text, outcome, nConnect, nWrite, nParse, delivered, other>>

WaitClosedOk ==
    /\ pc = "wait_closed"
    /\ pc' = "after"
    /\ UNCHANGED <<conn, attempts, data, loopExit, pending, text, outcome, nConnect, nWrite, nParse, delivered, other>>

\* except Exception: pass
WaitClosedFail ==
    /\ pc = "wait_closed"
    /\ pc' = "after"
    /\ UNCHANGED <<conn, attempts, data, loopExit, pending, text, outcome, nConnect, nWrite, nParse, delivered, other>>

\* CancelledError leaves the finally block and replaces what was in flight
WaitClosedCancel ==
    /\ pc = "wait_closed"
    /\ pending' = "cancelled"
    /\ pc' = "after"
    /\ UNCHANGED <<conn, attempts, data, loopExit, text, outcome, nConnect, nWrite, nParse, delivered, other>>

\* the exception in flight reaches the caller once the finally block is done
Propagate ==
    /\ pc = "after"
    /\ pending # "none"
    /\ outcome' = IF pending = "cancelled" THEN CancelledError ELSE FelicityApiError("talk")
    /\ pc' = "done"
    /\ UNCHANGED <<conn, attempts, data, loopExit, pending, text, nConnect, nWrite, nParse, delivered, other>>

\* mutant: the emptiness test is made on the decoded, stripped text
Finish_TestsText ==
    /\ pc = "after"
    /\ pending = "none"
    /\ IF Len(Strip(DecodeAscii(data))) = 0
       THEN /\ outcome' = FelicityApiError("empty")
            /\ pc' = "done"
            /\ text' = text
       ELSE /\ text' = Strip(DecodeAscii(data))
            /\ pc' = "parse"
            /\ outcome' = outcome
    /\ UNCHANGED <<conn, attempts, data, loopExit, pending, nConnect, nWrite, nParse, delivered, other>>

\* if not data: raise FelicityApiError("No data received from battery")
\* text = data.decode("ascii", errors="ignore").strip(); return text
Finish ==
    /\ pc = "after"
    /\ pending = "none"
    /\ IF Len(data) = 0
       THEN /\ outcome' = FelicityApiError("empty")
            /\ pc' = "done"
            /\ text' = text
       ELSE /\ text' = Strip(DecodeAscii(data))
            /\ pc' = "parse"
            /\ outcome' = outcome
    /\ UNCHANGED <<conn, attempts, data, loopExit, pending, nConnect, nWrite, nParse, delivered, other>>

\* return self._parse_payload(raw)
Parse ==
    /\ pc = "parse"
    /\ nParse' = nParse + 1
    /\ outcome' = ParsePayload(text)
    /\ pc' = "done"
    /\ UNCHANGED <<conn, attempts, data, loopExit, pending, text, nConnect, nWrite, delivered, other>>

Next ==
    \/ AsyncGetData
    \/ ConnectOk
    \/ ConnectFail
    \/ ConnectCancel
    \/ Write
    \/ DrainOk
    \/ DrainFail
    \/ DrainCancel
    \/ StartRead
    \/ LoopExhausted
    \/ \E chunk \in Chunks : ReadChunk(chunk)
    \/ ReadTimeout
    \/ ReadEof
    \/ ReadFail
    \/ ReadCancel
    \/ Close
    \/ WaitClosedOk
    \/ WaitClosedFail
    \/ WaitClosedCancel
    \/ Propagate
    \/ Finish
    \/ Parse

Spec == Init /\ [][Next]_vars

(***************************************************************************)
(* The steps that do not wait for the peer: code that is ready to run, and *)
(* the timer of wait_for.  Everything else (the connection being accepted, *)
(* the write buffer draining, bytes arriving, the close completing) happens*)
(* only if the peer and the network make it happen.                        *)
(***************************************************************************)
Scheduled ==
    \/ AsyncGetData
    \/ Write
    \/ StartRead
    \/ LoopExhausted
    \/ ReadTimeout
    \/ Close
    \/ Propagate
    \/ Finish
    \/ Parse

(***************************************************************************)
(* Two calls of async_get_data on one event loop, on one client or on two. *)
(* A coroutine keeps its locals (reader, writer, data, chunk, text) in its *)
(* own frame; the client holds only _host and _port, which no call writes. *)
(* The event loop runs one call at a time and changes over at an await:    *)
(* the variables above are the frame of the running call, other is the     *)
(* frame of the suspended one.                                             *)
(***************************************************************************)
Frame ==
    [pc |-> pc, conn |-> conn, attempts |-> attempts, data |-> data, loopExit |-> loopExit,
     pending |-> pending, text |-> text, outcome |-> outcome, nConnect |-> nConnect,
     nWrite |-> nWrite, nParse |-> nParse, delivered |-> delivered]

\* where a call is suspended: the four awaits of _async_read_raw
AwaitPoints == {"connect", "drain", "read", "wait_closed"}

\* mutant: the accumulated bytes are kept on the client, one buffer for both calls
Switch_SharedData ==
    /\ pc \in AwaitPoints \cup {"done"}
    /\ other.pc # "done"
    /\ other' = Frame
    /\ pc' = other.pc
    /\ conn' = other.conn
    /\ attempts' = other.attempts
    /\ data' = data
    /\ loopExit' = other.loopExit
    /\ pending' = other.pending
    /\ text' = other.text
    /\ outcome' = other.outcome
    /\ nConnect' = other.nConnect
    /\ nWrite' = other.nWrite
    /\ nParse' = other.nParse
    /\ delivered' = other.delivered

\* the running call is suspended at an await (or has returned) and the event
\* loop runs the other call, which starts or resumes with its own locals
Switch ==
    /\ pc \in AwaitPoints \cup {"done"}
    /\ other.pc # "done"
    /\ other' = Frame
    /\ pc' = other.pc
    /\ conn' = other.conn
    /\ attempts' = other.attempts
    /\ data' = other.data
    /\ loopExit' = other.loopExit
    /\ pending' = other.pending
    /\ text' = other.text
    /\ outcome' = other.outcome
    /\ nConnect' = other.nConnect
    /\ nWrite' = other.nWrite
    /\ nParse' = other.nParse
    /\ delivered' = other.delivered

\* what a connection delivers in one attempt when two calls are followed
ConcChunks == {ChunkOpen, ChunkClose}

ConcNext ==
    \/ AsyncGetData
    \/ ConnectOk
    \/ ConnectFail
    \/ ConnectCancel
    \/ Write
    \/ DrainOk
    \/ DrainFail
    \/ DrainCancel
    \/ StartRead
    \/ LoopExhausted
    \/ \E chunk \in ConcChunks : ReadChunk(chunk)
    \/ ReadTimeout
    \/ ReadEof
    \/ ReadFail
    \/ ReadCancel
    \/ Close
    \/ WaitClosedOk
    \/ WaitClosedFail
    \/ WaitClosedCancel
    \/ Propagate
    \/ Finish
    \/ Parse
    \/ Switch

ConcSpec == Init /\ [][ConcNext]_vars

(***************************************************************************)
(* _parse_payload on its own: the texts are payloads built from the fields *)
(* the device sends, well-formed and malformed, in both quote styles.      *)
(***************************************************************************)
MaxOther == 2

Field(q, key, value) == <<q>> \o key \o <<q, ":">> \o value

\* the essential groups a payload starts with
Essentials(q) ==
    << <<>>,
       Field(q, kBatsoc, <<"[", "[", "9", "9", ",", "1", "0", ",", "2", "5", "]", "]">>),
       Field(q, kBatt, <<"[", "[", "5", "3", "]", ",", "[", "-", "1", "]", ",",
                         "[", "n", "u", "l", "l", "]", "]">>),
       Field(q, kBatsoc, <<"[", "[", "9", ",", "-", ",", "2", "]", "]">>),
       Field(q, kBatt, <<" ", "[", "[", "5", "]", ",", "[", "1", "]", ",", "[", "7", "]", "]">>)
    >>

\* the other fields
Others(q) ==
    << Field(q, kCommVer, <<"3">>),
       Field(q, kCommVer, <<"-">>),
       Field(q, kDevSN, <<q, "O", Apos, "B", q>>),
       Field(q, kWifiSN, <<q, "W", "1", q>>),
       Field(q, kEstate, <<"-", "2">>),
       Field(q, kBwarn, <<"5">>),
       Field(q, kBfault, <<"0">>),
       Field(q, kBfault, <<"0", "[", "[", "1", "4", "0", ",", "1", "3", "0", "]", "]">>),
       Field(q, kBTemp, <<"[", "[", "1", "4", "0", ",", "1", "3", "0", "]", "]">>),
       Field(q, kBTemp, <<"[", "[", "1", "4", ",", "1", "3", "]", ",", "[", "1", ",", "2", "]", "]">>),
       Field(q, kTemplist, <<"[", "[", "1", "5", ",", "1", "6", "]", ",", "[", "0", ",", "2", "]", "]">>),
       Field(q, kBMaxMin, <<"[", "[", "3", ",", "2", "]", ",", "[", "6", ",", "7", "]", "]">>),
       Field(q, kBMaxMin, <<"[", "[", "3", "-", "2", ",", "2", "]", ",", "[", "6", ",", "7", "]", "]">>),
       Field(q, kLVolCur, <<"[", "[", "5", ",", "4", "]", ",", "[", "1", ",", "-", "]", "]">>),
       Field(q, kBatcelList, <<"[", "[", "1", ",", " ", "-", "2", "]", "]">>),
       Field(q, kBatcelList, <<"[", "[", "1", ",", ",", "2", "]", "]">>)
    >>

NOthers == Len(Others(Q))

\* the chosen fields, in the order of their indexes, separated by commas
RECURSIVE Join(_, _)
Join(fields, chosen) ==
    IF chosen = {} THEN <<>>
    ELSE LET k == CHOOSE i \in chosen : \A j \in chosen : i <= j
             rest == Join(fields, chosen \ {k})
         IN  IF Len(rest) = 0 THEN fields[k] ELSE fields[k] \o <<",">> \o rest

Payload(q, e, chosen, tail) ==
    LET head == Essentials(q)[e]
        body == Join(Others(q), chosen)
    IN  <<"{">> \o head \o (IF Len(head) > 0 /\ Len(body) > 0 THEN <<",">> ELSE <<>>)
        \o body \o <<"}">> \o tail

\* the quote style and what follows the closing brace
Styles == { <<Q, <<>>>>, <<Apos, <<>>>>, <<Q, <<"\r", "\n", "O", "K", "}", "x">>>> }

Payloads ==
    { Payload(st[1], e, chosen, st[2]) :
        st \in Styles,
        e \in 1..Len(Essentials(Q)),
        chosen \in {c \in SUBSET (1..NOthers) : Cardinality(c) <= MaxOther} }

\* _parse_payload is about to be called with a text that one read delivered
ParseInit ==
    /\ text \in Payloads
    /\ pc = "parse"
    /\ conn = "closed"
    /\ attempts = 1
    /\ data = text
    /\ loopExit = "brace"
    /\ pending = "none"
    /\ outcome = Pending
    /\ nConnect = 1
    /\ nWrite = 1
    /\ nParse = 0
    /\ delivered = text
    /\ other = IdleFrame

ParseNext == Parse

ParseSpec == ParseInit /\ [][ParseNext]_vars

(***************************************************************************)
(* Claims about the transport                                              *)
(***************************************************************************)

\* C1: once the connection has been opened it is closed on every exit path
\* (normal completion, timeout, zero-byte read, write/drain or read error,
\* cancellation), before the result or the error reaches the caller: no state
\* past the finally block, and no final state, has an open connection.
C1_ClosedOnEveryExit ==
    /\ pc \in {"wait_closed", "after", "parse", "done"} => conn # "open"
    /\ outcome # Pending => conn # "open"

\* C1 witness: a call cancelled during a read has ended with the connection closed
C1_Witness ==
    pc = "done" /\ outcome = CancelledError /\ loopExit = "cancel" /\ conn = "closed"

\* C2 as stated: at most ten read attempts; the loop stops before the tenth
\* attempt exactly when the accumulated bytes contain a closing brace for the
\* first time, a read times out or a read returns zero bytes; a chunk that
\* leaves the bytes without a brace does not end it; no read follows a stop.
\* (A cancelled call is abandoned, and is not held against the claim.)
C2_ThreeStopConditions ==
    /\ attempts <= MaxAttempts
    /\ (loopExit \notin {"none", "cancel"} /\ attempts < MaxAttempts)
           => loopExit \in {"brace", "timeout", "eof"}
    /\ loopExit = "brace" <=> HasBrace(data)
    /\ pc \in {"loop", "read"} => loopExit = "none" /\ ~HasBrace(data)

\* C2 amended: as C2, with the two further ways the loop ends before the tenth
\* attempt: a read attempt raises an error, or the call is cancelled in a read.
C2_StopConditions ==
    /\ attempts <= MaxAttempts
    /\ (loopExit # "none" /\ attempts < MaxAttempts)
           => loopExit \in {"brace", "timeout", "eof", "error", "cancel"}
    /\ loopExit = "brace" <=> HasBrace(data)
    /\ pc \in {"loop", "read"} => loopExit = "none" /\ ~HasBrace(data)

\* C2 witness: the loop ended on the third attempt, whose chunk brought the
\* first closing brace after two chunks without one
C2_Witness ==
    loopExit = "brace" /\ attempts = 3 /\ data = ChunkOpen \o ChunkBlank \o ChunkClose

\* C3: every call of async_get_data eventually completes, whatever the peer
\* does: no step waits without bound.  A call in progress can always take a
\* step that does not depend on the peer (code that is ready to run, or the
\* timer of a wait_for); the loop being bounded, that gives termination.
C3_NoUnboundedWait == (pc \notin {"idle", "done"}) => ENABLED Scheduled

\* C4: when opening the connection fails the call fails with
\* FelicityApiError after exactly one connection attempt: no retry, no write,
\* no read, no parse, no record.
C4_ConnectFailure ==
    conn = "failed" =>
        /\ pc = "done"
        /\ outcome = FelicityApiError("connect")
        /\ nConnect = 1
        /\ nWrite = 0
        /\ attempts = 0
        /\ nParse = 0

\* C4 witness: a call whose connection attempt failed
C4_Witness == conn = "failed" /\ pc = "done"

\* C5 as stated: the fetch fails with the empty-response failure iff the read
\* loop exited with zero accumulated bytes; then the parser is not invoked; a
\* fetch that accumulated a byte never fails with the empty-response failure.
\* (A cancelled call is abandoned, and is not held against the claim.)
C5_EmptyIffNoBytes ==
    (pc = "done" /\ outcome # CancelledError) =>
        /\ outcome = FelicityApiError("empty") <=> (loopExit # "none" /\ Len(data) = 0)
        /\ outcome = FelicityApiError("empty") => nParse = 0
        /\ Len(data) > 0 => outcome # FelicityApiError("empty")

\* C5 amended: the fetch fails with the empty-response failure iff the read
\* loop ended by a zero-byte read or a timeout (not by a read error) with zero
\* accumulated bytes and the call was not cancelled; the rest as stated.
C5_EmptyIffNoBytesNoError ==
    pc = "done" =>
        /\ outcome = FelicityApiError("empty")
               <=> (loopExit \in {"timeout", "eof"} /\ Len(data) = 0 /\ pending = "none")
        /\ outcome = FelicityApiError("empty") => nParse = 0
        /\ Len(data) > 0 => outcome # FelicityApiError("empty")

\* C5 witness: the peer closed at once and the fetch failed as empty, unparsed
C5_Witness ==
    pc = "done" /\ outcome = FelicityApiError("empty") /\ loopExit = "eof" /\ nParse = 0

\* C6: every failure of async_get_data other than cancellation is a
\* FelicityApiError: the parser returns a record or raises FelicityApiError
C6_OnlyDomainFailure ==
    pc = "done" => outcome.kind \in {"record", "FelicityApiError", "CancelledError"}

(***************************************************************************)
(* Claims about _parse_payload                                             *)
(***************************************************************************)
BatsocOf(t) == FindBatsoc(Normalize(t))
BattOf(t) == FindBatt(Normalize(t))

\* C7: a record is returned only if Batsoc or Batt was extracted; a payload
\* with only the Batsoc group is accepted; a payload from which neither is
\* extracted fails with the parse failure, and no record is returned.
C7_EssentialGroups ==
    pc = "done" =>
        /\ outcome.kind = "record"
               => ("Batsoc" \in DOMAIN outcome.rec \/ "Batt" \in DOMAIN outcome.rec)
        /\ (BatsocOf(text).val # None /\ BattOf(text) = Absent) => outcome.kind = "record"
        /\ (BatsocOf(text).val = None /\ BattOf(text).val = None)
               => outcome = FelicityApiError("parse")

\* C8: when an essential group is extracted, a malformed value in any other
\* field never makes the call fail: the record is still returned.
C8_OptionalFieldsNeverFail ==
    (/\ pc = "done"
     /\ ~BatsocOf(text).exc /\ ~BattOf(text).exc
     /\ BatsocOf(text).val # None \/ BattOf(text).val # None)
        => outcome.kind = "record"

HasQuote(t) == \E k \in 1..Len(t) : t[k] = Q

\* the text holds "DevSN":"O'B", written with double quotes
HasAposSerial(t) ==
    \E i \in 1..Len(t) :
        LET lit == Field(Q, kDevSN, <<Q, "O", Apos, "B", Q>>)
        IN  i + Len(lit) - 1 <= Len(t) /\ SubSeq(t, i, i + Len(lit) - 1) = lit

\* C9: a text that contains a double quote keeps every single quote: an
\* apostrophe inside a double-quoted serial number is in the extracted value.
C9_QuotesKeptWhenDoubleQuoted ==
    (pc = "done" /\ HasQuote(text)) =>
        /\ \A k \in 1..Len(Normalize(text)) : text[k] = Apos => Normalize(text)[k] = Apos
        /\ (outcome.kind = "record" /\ HasAposSerial(text))
               => outcome.rec.DevSN = Some(<<"O", Apos, "B">>)

\* a two-integer nested array [[t1,t2]], the shape of the BTemp value
TempArrayPat == <<LB, S, LB, S, IntGroup, S, Comma, S, IntGroup, S, RB, S, RB>>

\* where the Bfault integer ends when such an array follows it at once, else 0
GluedAt(t) ==
    LET m == Search(FindIntPat(kBfault), t)
    IN  IF m.ok /\ MatchAt(TempArrayPat, t, m.end, <<>>).ok THEN m.end ELSE 0

\* the payload with ,"BTemp": written out between the integer and the array
WrittenOut(t) ==
    SubSeq(t, 1, GluedAt(t) - 1) \o <<",", Q>> \o kBTemp \o <<Q, ":">>
        \o SubSeq(t, GluedAt(t), Len(t))

\* C10: for a payload whose Bfault integer is followed at once by a
\* temperature-shaped array (and that names no temperature field), the record has BTemp equal to that array, as for
\* the payload in which ,"BTemp": is written out.
C10_GluedTemperature ==
    (/\ pc = "done"
     /\ GluedAt(ReplaceQuotes(text)) # 0
     /\ ~Search(<<Key(kBTemp)>>, ReplaceQuotes(text)).ok
     /\ ~Search(<<Key(kTemplist)>>, ReplaceQuotes(text)).ok) =>
        /\ outcome = ParsePayload(WrittenOut(ReplaceQuotes(text)))
        /\ outcome.kind = "record" => "BTemp" \in DOMAIN outcome.rec

\* the pair of integers of captured groups a and b of a match
PairOf(m, a, b) == <<IntOf(m.caps[a][1]), IntOf(m.caps[b][1])>>

\* C11: the temperature of the record comes from the primary BTemp field
\* whenever it matches (one or two two-integer groups), also when Templist is
\* present; only when it does not match is the first two-integer group of
\* Templist used, as [[t1,t2]]; when neither matches the record has no BTemp.
C11_TemperatureSource ==
    (pc = "done" /\ outcome.kind = "record") =>
        LET m == Search(BTempPat, Normalize(text))
            f == Search(TemplistPat, Normalize(text))
        IN  /\ m.ok =>
                  /\ "BTemp" \in DOMAIN outcome.rec
                  /\ outcome.rec.BTemp =
                         IF m.caps[3] = None THEN <<PairOf(m, 1, 2)>>
                         ELSE <<PairOf(m, 1, 2), PairOf(m, 3, 4)>>
            /\ (~m.ok /\ f.ok) =>
                  /\ "BTemp" \in DOMAIN outcome.rec
                  /\ outcome.rec.BTemp = <<PairOf(f, 1, 2)>>
            /\ (~m.ok /\ ~f.ok) => "BTemp" \notin DOMAIN outcome.rec

\* C11 witness: a record from a payload that has both BTemp and Templist, with
\* the temperature of the primary field
C11_Witness ==
    /\ pc = "done"
    /\ outcome.kind = "record"
    /\ Search(BTempPat, Normalize(text)).ok
    /\ Search(TemplistPat, Normalize(text)).ok
    /\ outcome.rec.BTemp = <<<<140, 130>>>>

\* the text holds a single quote
HasApos(t) == \E k \in 1..Len(t) : t[k] = Apos

\* the same payload written with a double quote in place of each single quote
DoubleQuoted(t) == [k \in 1..Len(t) |-> IF t[k] = Apos THEN Q ELSE t[k]]

\* C12: a payload written with single quotes and no double quote gives the same
\* result (the same record, key for key, or the same failure) as the payload
\* with each single quote replaced by a double quote.
C12_SingleQuotedSameAsDouble ==
    (pc = "done" /\ HasApos(text) /\ ~HasQuote(text)) =>
        outcome = ParsePayload(DoubleQuoted(text))

\* C12 witness: a record with fields read from a payload in single quotes
C12_Witness ==
    /\ pc = "done"
    /\ HasApos(text)
    /\ ~HasQuote(text)
    /\ outcome.kind = "record"
    /\ outcome.rec.wifiSN = Some(<<"W", "1">>)
    /\ "Batsoc" \in DOMAIN outcome.rec

\* what a call that runs alone returns when its connection was opened,
\* delivered bytes, and the read loop ended without an error
Alone(bytes) ==
    IF Len(bytes) = 0 THEN FelicityApiError("empty")
    ELSE ParsePayload(Strip(DecodeAscii(bytes)))

\* what a call that runs alone returns after the events of its own connection
\* that its locals f record: refused, failed while talking, or bytes delivered
AloneAfter(f) ==
    IF f.conn = "failed" THEN FelicityApiError("connect")
    ELSE IF f.pending = "talk" THEN FelicityApiError("talk")
    ELSE Alone(f.delivered)

\* the call with locals f has returned and was not cancelled
Returned(f) == f.pc = "done" /\ f.outcome # CancelledError

\* the call with locals f holds the bytes of its own connection and no others,
\* and what it returns is what a call alone returns for them
OwnBytesOnly(f) ==
    /\ f.data = f.delivered
    /\ Returned(f) => f.outcome = AloneAfter(f)

\* C13: the outcome of a fetch is a function of what its own connection
\* delivered: of two fetches whose steps interleave at the awaits, each holds
\* only its own bytes and returns what it returns when it runs alone.
C13_FetchesIndependent == OwnBytesOnly(Frame) /\ OwnBytesOnly(other)

\* C13 witness: one call has run from connect to a record while the other is
\* suspended inside its read loop, holding different bytes
C13_Witness ==
    /\ Returned(Frame)
    /\ outcome.kind = "record"
    /\ delivered = ChunkOpen \o ChunkClose
    /\ other.pc = "read"
    /\ other.attempts = 3
    /\ other.delivered = ChunkOpen \o ChunkOpen

\* C14: within one fetch the steps come in the order connect, write, reads,
\* close, parse: the command is written exactly once, after the connection is
\* open and before the first read attempt; the parser is called only after the
\* connection was closed, and only when the read loop ended without an error
\* and with at least one byte; bytes accumulated before a read error are never
\* parsed, the call fails.
C14_FixedOrder ==
    /\ nConnect <= 1 /\ nWrite <= 1 /\ nParse <= 1
    /\ nWrite = 1 => (nConnect = 1 /\ conn \in {"open", "closed"})
    /\ (conn \in {"open", "closed"} /\ pc # "write") => nWrite = 1
    /\ pc = "write" => (conn = "open" /\ nWrite = 0 /\ attempts = 0)
    /\ attempts > 0 => nWrite = 1
    /\ pc \in {"drain", "loop", "read", "close"} => conn = "open"
    /\ pc \in {"wait_closed", "after", "parse"} => conn = "closed"
    /\ (pc = "parse" \/ nParse = 1) =>
           /\ conn = "closed"
           /\ pending = "none"
           /\ loopExit \in {"brace", "timeout", "eof", "exhausted"}
           /\ Len(data) > 0
           /\ text = Strip(DecodeAscii(data))
    /\ loopExit = "error" =>
           /\ pc # "parse" /\ nParse = 0
           /\ text = <<>>
           /\ pc = "done" => outcome \in {FelicityApiError("talk"), CancelledError}

\* C14 witness: a call that had read bytes when a read failed has ended with
\* the failure, its connection closed, the parser never called
C14_Witness ==
    /\ pc = "done"
    /\ loopExit = "error"
    /\ data = ChunkOpen \o ChunkBlank
    /\ conn = "closed"
    /\ nWrite = 1
    /\ nParse = 0
    /\ outcome = FelicityApiError("talk")

=============================================================================
